---- MODULE Spec2Model ----
(***************************************************************************)
(* Model of the lexical-component editor layer: the HTML <-> node-tree     *)
(* bridge (LoadContentPlugin, setLexicalEditorContent, applySourceChanges, *)
(* cleanExportedHtml), the hidden-field sync listener (SyncContentPlugin), *)
(* the raw source override (window._lexicalRawHtml), the source-view       *)
(* toggle of ToolbarPlugin and the page-wide registry (ExternalAPIPlugin). *)
(*                                                                         *)
(* The rich-text engine is a collaborator: editor.update(fn) runs fn on a  *)
(* pending state and the commit (with its update notifications) follows in *)
(* a microtask.  Optional values are sequences of length 0 or 1.           *)
(***************************************************************************)
EXTENDS Integers, Sequences, FiniteSets, TLC

\* ----- bounds ------------------------------------------------------------
MaxText   == 1      \* longest text run of a block
MaxRoot   == 2      \* most children of a root that edits/inserts may build
MaxMounts == 2      \* mounts per instance
MaxTools == 3       \* tokens in a toollist attribute
MaxStr == 2         \* characters of the string value in a JSON attribute
MaxClicks == 2      \* activations of the spellcheck control
MaxReads == 2       \* clipboard reads in flight
MaxBatch  == 2      \* API calls a host script makes in one task

\* ----- the page ----------------------------------------------------------
Instances == {1, 2}
Fields    == {"f1", "f2", "f3"}
UnknownId == "nope"
\* a name every object inherits from Object.prototype
ProtoKey  == "constructor"

\* aryeditordocuments of each instance: the ids of its document descriptors
Documents(i) == IF i = 1 THEN <<"f1", "f3">> ELSE <<"f2">>

\* ----- HTML text, as the sequence of its top-level DOM nodes --------------
\* cls: << >> (no class attribute) or <<S>> (class attribute with the tokens S)
\* span: << >> (text not wrapped) or <<s>> (text wrapped in the span element s)
Tok(tag, len) ==
  [tag |-> tag, len |-> len, cls |-> << >>, dir |-> "", span |-> << >>, attrs |-> {}]

\* a class token: its leading "lexical-", if it has one, and the rest
ThemeClass(name) == <<"lexical-", name>>
PlainClass(name) == <<"", name>>

\* a span element; style: << >> (no style attribute) or <<S>> (the
\* declarations S of its style attribute)
Span(style, cls, dir) == [style |-> style, cls |-> cls, dir |-> dir]

\* style="white-space: pre-wrap;", which the engine's export puts on text
Marker == "white-space: pre-wrap"
\* the span the engine's export wraps a text of length len in
TextSpan(len) == IF len > 0 THEN <<Span(<<{Marker}>>, << >>, "")>> ELSE << >>
T1 == Tok("#text", 1)
D1 == Tok("div", 1)
ST == Tok("style", 0)
A1 == Tok("a", 1)
\* <style media="print">...</style>
STM == [Tok("style", 1) EXCEPT !.attrs = {"media=print"}]

EmptyHtml  == << >>
HtmlInputs == { EmptyHtml, <<ST, T1>>, <<A1>> }

\* "body" of the first document descriptor of each instance
DocBody(i) == IF i = 1 THEN <<D1, ST>> ELSE EmptyHtml

None    == << >>
Some(v) == <<v>>

VARIABLES
  mounted,      \* instance -> BOOLEAN
  gen,          \* instance -> number of the engine created by the last mount
  tree,         \* instance -> committed root children
  pending,      \* instance -> None | Some(pending editor state)
  sel,          \* instance -> BOOLEAN, a live text-range selection exists
  fieldPresent, \* the hidden fields that exist on the page
  fieldVal,     \* field id -> value of the hidden field
  rawStore,     \* window._lexicalRawHtml: field id -> None | Some(html)
  registry,     \* window._lexicalEditors: field id -> None | Some(engine)
  apiDefined,   \* window.setLexicalEditorContent / insertIntoActive exist
  activeId,     \* window.activeLexicalEditorId: None | Some(field id)
  showSource,   \* instance -> BOOLEAN (Source mode)
  sourceHTML,   \* instance -> text of the source view
  sourceError,  \* instance -> BOOLEAN, an error message is shown
  onPage,       \* the <lexical-editor> elements the host page contains
  sourceTool,   \* the instances whose tool list has the token "source"
  tbDocsPassed, \* the toolbar is rendered with the documents prop
  batch,        \* API calls made since the engine last committed
  containerStyle, \* instance -> inline position style of its container div
  isMaximized,  \* instance -> BOOLEAN, state of its toolbar's maximize button
  maximizeTool, \* the instances whose tool list has the token "maximize"
  bridge,       \* the conversion a test of the HTML bridge has in hand
  lastOp        \* history: the handler that ran last

vars == <<mounted, gen, tree, pending, sel, fieldPresent, fieldVal, rawStore,
          registry, apiDefined, activeId, showSource, sourceHTML, sourceError,
          onPage, sourceTool, tbDocsPassed, batch, containerStyle, isMaximized,
          maximizeTool, bridge, lastOp>>

\* the toolbar state no editing operation touches
chrome == <<containerStyle, isMaximized, maximizeTool, bridge>>

\* every variable but bridge
page == <<mounted, gen, tree, pending, sel, fieldPresent, fieldVal, rawStore,
          registry, apiDefined, activeId, showSource, sourceHTML, sourceError,
          onPage, sourceTool, tbDocsPassed, batch, containerStyle, isMaximized,
          maximizeTool, lastOp>>

\* the table-size picker before its first use: selectedRows and selectedCols,
\* the index of the cell that has the keyboard focus (-1: none), whether the
\* pointer is over a cell, and the last INSERT_TABLE_COMMAND payload (<< >>: none)
PickerIdle == [open |-> FALSE, rows |-> 0, cols |-> 0, focus |-> -1, hover |-> FALSE,
               cmd |-> << >>]

\* no conversion in hand; attr, toolList and controls: the toollist attribute
\* of an element (<< >> absent, <<l>> the list l), the prop made of it and the
\* controls rendered for it
BridgeIdle == [op |-> "idle", tie |-> "last", path |-> "", tree |-> << >>,
               html |-> << >>, back |-> << >>, out |-> << >>,
               attr |-> << >>, toolList |-> << >>, controls |-> << >>,
               docsAttr |-> << >>, sizingAttr |-> << >>, spellAttr |-> << >>,
               documents |-> << >>, editorSizing |-> << >>,
               spellCheckCallback |-> << >>, log |-> << >>, thrown |-> FALSE,
               variant |-> "", hostFns |-> {}, calls |-> << >>, clicks |-> 0,
               reads |-> << >>, picker |-> PickerIdle]

\* ----- node tree ---------------------------------------------------------
Node(type, len) == [type |-> type, len |-> len]

isElementNode(n)   ==
  n.type \in {"paragraph", "custom-div", "link", "address", "preformatted", "code"}
isDecoratorNode(n) == n.type = "stylesheet"

\* node.isInline(): text, and the LinkNode among the element nodes
isInline(n) == n.type \in {"text", "link"}

createParagraphNode == Node("paragraph", 0)

\* the editor's state right after construction: one empty paragraph
InitialTree == <<createParagraphNode>>

\* ----- HTML -> DOM -> nodes ----------------------------------------------
RECURSIVE LeadingStyles(_)
LeadingStyles(h) ==
  IF h = << >> THEN << >>
  ELSE IF Head(h).tag = "style" THEN <<Head(h)>> \o LeadingStyles(Tail(h))
  ELSE << >>

\* DOMParser.parseFromString(html, 'text/html'): <style> elements before any
\* body content are placed in the head, everything else in the body
parseFromString(h) ==
  [head |-> LeadingStyles(h),
   body |-> SubSeq(h, Len(LeadingStyles(h)) + 1, Len(h))]

RECURSIVE Reverse(_)
Reverse(s) == IF s = << >> THEN << >> ELSE Reverse(Tail(s)) \o <<Head(s)>>

\* each head <style>, in order, is inserted before body.firstChild
RelocateStyles(dom) == [head |-> << >>, body |-> Reverse(dom.head) \o dom.body]

IgnoreTags == {"style", "script"}

\* CodeNode and PreformattedNode both convert <pre> with priority 0: the one
\* registered first or the one registered last is chosen, as the engine's
\* release breaks the tie
PreWinner == IF bridge.tie = "first" THEN "code" ELSE "preformatted"

\* a converter set in which <style> is converted to a StyleSheetNode
ConvertNodeStyle(t) ==
  IF t.tag = "style" THEN <<Node("stylesheet", 0)>>
  ELSE IF t.tag = "script" THEN << >>
  ELSE IF t.tag = "p" THEN <<Node("paragraph", t.len)>>
  ELSE IF t.tag = "div" THEN <<Node("custom-div", t.len)>>
  ELSE IF t.tag = "address" THEN <<Node("address", t.len)>>
  ELSE IF t.tag = "pre" THEN <<Node(PreWinner, t.len)>>
  ELSE IF t.tag = "a" THEN <<Node("link", t.len)>>
  ELSE <<Node("text", t.len)>>

\* the converter chosen for one top-level DOM node (registered node set)
ConvertNode(t) ==
  IF t.tag \in IgnoreTags THEN << >>
  ELSE IF t.tag = "p" THEN <<Node("paragraph", t.len)>>
  ELSE IF t.tag = "div" THEN <<Node("custom-div", t.len)>>
  ELSE IF t.tag = "address" THEN <<Node("address", t.len)>>
  ELSE IF t.tag = "pre" THEN <<Node(PreWinner, t.len)>>
  ELSE IF t.tag = "a" THEN <<Node("link", t.len)>>
  ELSE <<Node("text", t.len)>>

RECURSIVE ConvertAll(_)
ConvertAll(ts) == IF ts = << >> THEN << >> ELSE ConvertNode(Head(ts)) \o ConvertAll(Tail(ts))

\* $generateNodesFromDOM(editor, dom): the children of dom.body, converted
generateNodesFromDOM(dom) == ConvertAll(dom.body)

\* paragraph.append(node) for an inline node
WrapInParagraph(n) == Node("paragraph", n.len)

\* one step of nodes.forEach(...): append to root, wrapping inline nodes
AppendOne(n) == IF isElementNode(n) \/ isDecoratorNode(n) THEN n ELSE WrapInParagraph(n)

RECURSIVE AppendToRoot(_, _)
AppendToRoot(root, nodes) ==
  IF nodes = << >> THEN root
  ELSE AppendToRoot(Append(root, AppendOne(Head(nodes))), Tail(nodes))

\* root.clear() followed by the import of LoadContentPlugin / setLexicalEditorContent
ImportPlain(h) == AppendToRoot(<< >>, generateNodesFromDOM(parseFromString(h)))

\* root.clear() followed by the import of applySourceChanges
ImportSource(h) ==
  AppendToRoot(<< >>, generateNodesFromDOM(RelocateStyles(parseFromString(h))))

\* ----- nodes -> HTML -----------------------------------------------------
\* the element the node exports; theme classes of initialConfig.theme
ExportNode(n) ==
  IF n.type = "paragraph"
    THEN [Tok("p", n.len) EXCEPT !.cls = <<{ThemeClass("paragraph")}>>,
                                 !.dir = IF n.len > 0 THEN "ltr" ELSE "",
                                 !.span = TextSpan(n.len)]
  ELSE IF n.type = "custom-div"
    THEN [Tok("div", n.len) EXCEPT !.span = TextSpan(n.len)]
  ELSE IF n.type = "address"
    THEN [Tok("address", n.len) EXCEPT !.span = TextSpan(n.len)]
  ELSE IF n.type = "preformatted"
    THEN [Tok("pre", n.len) EXCEPT !.span = TextSpan(n.len)]
  ELSE IF n.type = "code"
    THEN [Tok("pre", n.len) EXCEPT !.cls = <<{ThemeClass("code-block")}>>,
                                   !.span = TextSpan(n.len),
                                   !.attrs = {"spellcheck=false"}]
  ELSE IF n.type = "link"
    THEN [Tok("a", n.len) EXCEPT !.cls = <<{ThemeClass("link")}>>,
                                 !.span = TextSpan(n.len)]
  ELSE IF n.type = "stylesheet"
    THEN Tok("style", n.len)
  ELSE [Tok("#text", n.len) EXCEPT !.span = TextSpan(n.len)]

\* $generateHtmlFromNodes(editor)
generateHtmlFromNodes(t) == [k \in 1..Len(t) |-> ExportNode(t[k])]

startsWithLexical(c) == c[1] = "lexical-"

CleanClassAll(cls) == << >>

\* step 1: the class attribute without its lexical- tokens, removed if none remain
CleanClass(cls) ==
  IF cls = << >> THEN << >>
  ELSE LET remaining == {c \in cls[1] : ~startsWithLexical(c)}
       IN IF remaining = {} THEN << >> ELSE <<remaining>>

\* step 2: dir="ltr" is removed
CleanDir(dir) == IF dir = "ltr" THEN "" ELSE dir

\* style.replace(/white-space:\s*pre-wrap;?\s*/g, '').trim()
CleanStyle(style) == IF style = << >> THEN {} ELSE style[1] \ {Marker}

CleanSpanMarkerOnly(s) ==
  IF s.style = <<{Marker}>> THEN << >>
  ELSE <<[s EXCEPT !.style = <<CleanStyle(s.style)>>]>>

\* step 3: << >> when the span is unwrapped, else the span with its new style
CleanSpan(s) ==
  IF CleanStyle(s.style) = {} THEN << >>
  ELSE <<[s EXCEPT !.style = <<CleanStyle(s.style)>>]>>

CleanTok(t) ==
  [t EXCEPT !.cls  = CleanClass(t.cls),
            !.dir  = CleanDir(t.dir),
            !.span = IF t.span = << >> THEN << >>
                     ELSE CleanSpan([t.span[1] EXCEPT !.cls = CleanClass(t.span[1].cls),
                                                      !.dir = CleanDir(t.span[1].dir)])]

\* the html is parsed, cleaned, and doc.body.innerHTML is returned
cleanExportedHtml(h) ==
  LET body == parseFromString(h).body
  IN [k \in 1..Len(body) |-> CleanTok(body[k])]

Export(t) == cleanExportedHtml(generateHtmlFromNodes(t))

\* ----- engine: pending state and commit ----------------------------------
CurTree(i) == IF pending[i] = None THEN tree[i] ELSE pending[i][1].tree

PendingOf(t, tag, origin) == Some([tree |-> t, tag |-> tag, origin |-> origin])

\* no event handler's transaction is waiting for its microtask
NoEventPending ==
  \A j \in Instances : IF pending[j] = None THEN TRUE ELSE pending[j][1].origin = "api"
NoPending      == \A j \in Instances : pending[j] = None

\* a host script makes at most MaxBatch API calls before the engine commits
BatchOpen == NoEventPending /\ batch < MaxBatch

FieldId(i) == Documents(i)[1]

Op(op, i, id, what, html, ok, writes) ==
  [op |-> op, inst |-> i, id |-> id, what |-> what, html |-> html, ok |-> ok,
   writes |-> writes]

\* a handler no property needs to tell apart
OtherOp == Op("event", 0, "", "", EmptyHtml, TRUE, << >>)

\* ----- SyncContentPlugin -------------------------------------------------
RECURSIVE PresentIn(_, _)
PresentIn(ids, present) ==
  IF ids = << >> THEN << >>
  ELSE (IF Head(ids) \in present THEN <<Head(ids)>> ELSE << >>) \o PresentIn(Tail(ids), present)

\* a listener that writes the field of the first descriptor only
SyncTargetsOwn(i) == PresentIn(<<Documents(i)[1]>>, fieldPresent)

SyncTargetsAll(i) == Documents(i)

\* the fields the update listener of instance i writes, in order
SyncTargets(i) == PresentIn(Documents(i), fieldPresent)

Range(s) == {s[k] : k \in 1..Len(s)}

\* a listener that prefers the stored raw source to the export
SyncValueOverride(i, t) ==
  IF rawStore[Documents(i)[1]] # None THEN rawStore[Documents(i)[1]][1] ELSE Export(t)

\* the value the update listener writes for the committed tree t
SyncValue(i, t) == Export(t)

\* documents.forEach(doc => hiddenField.value = htmlContent)
SyncWrite(i, t) ==
  [f \in Fields |-> IF f \in Range(SyncTargets(i)) THEN SyncValue(i, t) ELSE fieldVal[f]]

\* ----- initial state: the host page before any editor is mounted ----------
InitCommon ==
  /\ mounted = [i \in Instances |-> FALSE]
  /\ gen = [i \in Instances |-> 0]
  /\ tree = [i \in Instances |-> << >>]
  /\ pending = [i \in Instances |-> None]
  /\ sel = [i \in Instances |-> FALSE]
  /\ fieldPresent = Fields \ {"f2"}
  /\ fieldVal \in {[f \in Fields |-> EmptyHtml],
                   [f \in Fields |-> IF f = "f1" THEN <<ST, T1>> ELSE EmptyHtml]}
  /\ rawStore = [f \in Fields |-> None]
  /\ registry = [f \in Fields |-> None]
  /\ apiDefined = FALSE
  /\ activeId = None
  /\ showSource = [i \in Instances |-> FALSE]
  /\ sourceHTML = [i \in Instances |-> EmptyHtml]
  /\ sourceError = [i \in Instances |-> FALSE]
  /\ batch = 0
  /\ containerStyle = [i \in Instances |-> ""]
  /\ isMaximized = [i \in Instances |-> FALSE]
  /\ lastOp = OtherOp

\* a page with two editors whose tool lists do not offer the source view.
\* LexicalEditor renders <ToolbarPlugin toolList inline spellCheckCallback/>:
\* the toolbar's documents prop keeps its default, the empty list
Init ==
  /\ InitCommon /\ onPage = Instances /\ sourceTool = {} /\ tbDocsPassed = FALSE
  /\ maximizeTool = {} /\ bridge = BridgeIdle

\* that page with the maximize button in the tool list of the second editor
InitMaximize ==
  /\ InitCommon /\ onPage = Instances /\ sourceTool = {} /\ tbDocsPassed = FALSE
  /\ maximizeTool = {2} /\ bridge = BridgeIdle

\* a page with one editor whose tool list offers the source view
InitSource ==
  /\ InitCommon /\ onPage = {1} /\ sourceTool = {1} /\ tbDocsPassed = FALSE
  /\ maximizeTool = {} /\ bridge = BridgeIdle

\* that page with the toolbar rendered with the documents prop its signature declares
InitToolbar ==
  /\ InitCommon /\ onPage = {1} /\ sourceTool = {1} /\ tbDocsPassed = TRUE
  /\ maximizeTool = {} /\ bridge = BridgeIdle

\* tools.includes('source')
HasSourceTool(i) == i \in sourceTool

\* documents?.[0]?.id as the toolbar sees it
ToolbarFieldId(i) == IF tbDocsPassed THEN Some(Documents(i)[1]) ELSE None

\* ----- mount / unmount (LoadContentPlugin, ExternalAPIPlugin) -------------
\* the html LoadContentPlugin loads: the hidden field's value, else the body
LoadHtmlBodyFirst(i) ==
  IF DocBody(i) # EmptyHtml THEN DocBody(i)
  ELSE IF FieldId(i) \in fieldPresent THEN fieldVal[FieldId(i)] ELSE EmptyHtml

LoadHtml(i) ==
  IF FieldId(i) \in fieldPresent /\ fieldVal[FieldId(i)] # EmptyHtml
    THEN fieldVal[FieldId(i)]
    ELSE DocBody(i)

\* window._lexicalEditors[fieldId] = editor
Register(i, g) == [registry EXCEPT ![FieldId(i)] = Some([inst |-> i, gen |-> g])]

\* a cleanup that leaves the registry entry behind
UnregisterKeep(i) == registry

\* delete window._lexicalEditors[fieldId]
Unregister(i) == [registry EXCEPT ![FieldId(i)] = None]

Mount(i) ==
  /\ i \in onPage /\ ~mounted[i] /\ NoPending /\ gen[i] < MaxMounts
  /\ mounted' = [mounted EXCEPT ![i] = TRUE]
  /\ gen' = [gen EXCEPT ![i] = gen[i] + 1]
  /\ tree' = [tree EXCEPT ![i] = InitialTree]
  /\ pending' = [pending EXCEPT ![i] =
        IF LoadHtml(i) # EmptyHtml
          THEN PendingOf(ImportPlain(LoadHtml(i)), "", "event")
          ELSE None]
  /\ sel' = [sel EXCEPT ![i] = FALSE]
  /\ registry' = Register(i, gen[i] + 1)
  /\ apiDefined' = TRUE
  /\ showSource' = [showSource EXCEPT ![i] = FALSE]
  /\ sourceHTML' = [sourceHTML EXCEPT ![i] = EmptyHtml]
  /\ sourceError' = [sourceError EXCEPT ![i] = FALSE]
  /\ containerStyle' = [containerStyle EXCEPT ![i] = ""]
  /\ isMaximized' = [isMaximized EXCEPT ![i] = FALSE]
  /\ lastOp' = Op("mount", i, FieldId(i), "", LoadHtml(i), TRUE, << >>)
  /\ UNCHANGED <<fieldPresent, fieldVal, rawStore, activeId, tbDocsPassed, batch,
                 onPage, sourceTool, maximizeTool, bridge>>

Unmount(i) ==
  /\ mounted[i] /\ NoPending
  /\ mounted' = [mounted EXCEPT ![i] = FALSE]
  /\ tree' = [tree EXCEPT ![i] = << >>]
  /\ sel' = [sel EXCEPT ![i] = FALSE]
  /\ registry' = Unregister(i)
  /\ containerStyle' = [containerStyle EXCEPT ![i] = ""]
  /\ isMaximized' = [isMaximized EXCEPT ![i] = FALSE]
  /\ showSource' = [showSource EXCEPT ![i] = FALSE]
  /\ sourceHTML' = [sourceHTML EXCEPT ![i] = EmptyHtml]
  /\ sourceError' = [sourceError EXCEPT ![i] = FALSE]
  /\ lastOp' = OtherOp
  /\ UNCHANGED <<gen, pending, fieldPresent, fieldVal, rawStore, apiDefined,
                 activeId, tbDocsPassed, batch, onPage, sourceTool, maximizeTool, bridge>>

\* a handler that records only the first focus of the page
handleFocusFirst(i) == IF activeId = None THEN Some(FieldId(i)) ELSE activeId

\* handleFocus: window.activeLexicalEditorId = fieldId
handleFocus(i) == Some(FieldId(i))

\* the root element of instance i receives focus
Focus(i) ==
  /\ mounted[i] /\ NoPending
  /\ activeId' = handleFocus(i)
  /\ sel' = [sel EXCEPT ![i] = TRUE]
  /\ lastOp' = Op("focus", i, FieldId(i), "", EmptyHtml, TRUE, << >>)
  /\ UNCHANGED <<mounted, gen, tree, pending, fieldPresent, fieldVal, rawStore,
                 registry, apiDefined, showSource, sourceHTML, sourceError,
                 tbDocsPassed, batch, onPage, sourceTool, chrome, bridge>>

\* ----- ordinary edits in the visual editor --------------------------------
\* the trees one keystroke can produce from t
EditResults(t) ==
  (IF t = << >> THEN {<<Node("paragraph", 1)>>} ELSE {})
  \cup (IF t # << >> /\ t[Len(t)].len < MaxText
          THEN {[t EXCEPT ![Len(t)].len = t[Len(t)].len + 1]} ELSE {})
  \cup (IF t # << >> /\ Len(t) < MaxRoot THEN {Append(t, createParagraphNode)} ELSE {})

VisualEdit(i) ==
  /\ mounted[i] /\ NoPending /\ sel[i]
  /\ \E t \in EditResults(tree[i]) :
       pending' = [pending EXCEPT ![i] = PendingOf(t, "", "event")]
  /\ lastOp' = Op("edit", i, FieldId(i), "", EmptyHtml, TRUE, << >>)
  /\ UNCHANGED <<mounted, gen, tree, sel, fieldPresent, fieldVal, rawStore, registry,
                 apiDefined, activeId, showSource, sourceHTML, sourceError,
                 tbDocsPassed, batch, onPage, sourceTool, chrome, bridge>>

\* ----- the engine commits a transaction and notifies the listeners --------
Commit(i) ==
  /\ pending[i] # None
  /\ tree' = [tree EXCEPT ![i] = pending[i][1].tree]
  /\ pending' = [pending EXCEPT ![i] = None]
  /\ fieldVal' = SyncWrite(i, pending[i][1].tree)
  /\ lastOp' = IF lastOp.inst = i /\ lastOp.op # "commit"
                  THEN Op("commit", i, FieldId(i), lastOp.op, lastOp.html, TRUE, SyncTargets(i))
                  ELSE Op("commit", i, FieldId(i), "", EmptyHtml, TRUE, SyncTargets(i))
  /\ batch' = IF \A j \in Instances \ {i} : pending[j] = None THEN 0 ELSE batch
  /\ UNCHANGED <<mounted, gen, sel, fieldPresent, rawStore, registry, apiDefined,
                 activeId, showSource, sourceHTML, sourceError, tbDocsPassed, onPage, sourceTool, chrome, bridge>>

\* ----- source view (ToolbarPlugin) ----------------------------------------
\* fieldId && window._lexicalRawHtml?.[fieldId], tested for truthiness
StoredRawHtml(i) ==
  IF ToolbarFieldId(i) # None /\ rawStore[ToolbarFieldId(i)[1]] # None
       /\ rawStore[ToolbarFieldId(i)[1]][1] # EmptyHtml
    THEN rawStore[ToolbarFieldId(i)[1]]
    ELSE None

\* the text toggleSource puts into the source view
SourceText(i) == IF StoredRawHtml(i) # None THEN StoredRawHtml(i)[1] ELSE Export(tree[i])

\* toggleSource while the visual editor is shown
EnterSourceView(i) ==
  /\ mounted[i] /\ NoPending /\ HasSourceTool(i) /\ ~showSource[i]
  /\ sourceHTML' = [sourceHTML EXCEPT ![i] = SourceText(i)]
  /\ showSource' = [showSource EXCEPT ![i] = TRUE]
  /\ lastOp' = Op("enterSource", i, FieldId(i), "", EmptyHtml, TRUE, << >>)
  /\ UNCHANGED <<mounted, gen, tree, pending, sel, fieldPresent, fieldVal, rawStore,
                 registry, apiDefined, activeId, sourceError, tbDocsPassed, batch, onPage, sourceTool, chrome, bridge>>

\* handleSourceChange: the user replaces the text of the source view
handleSourceChange(i) ==
  /\ mounted[i] /\ NoPending /\ showSource[i]
  /\ \E h \in HtmlInputs :
       /\ sourceHTML' = [sourceHTML EXCEPT ![i] = h]
       /\ lastOp' = OtherOp
  /\ sourceError' = [sourceError EXCEPT ![i] = FALSE]
  /\ UNCHANGED <<mounted, gen, tree, pending, sel, fieldPresent, fieldVal, rawStore,
                 registry, apiDefined, activeId, showSource, tbDocsPassed, batch, onPage, sourceTool, chrome, bridge>>

\* window._lexicalRawHtml[fieldId] = sourceHTML, before the import
StoreRaw(i) ==
  IF ToolbarFieldId(i) # None
    THEN [rawStore EXCEPT ![ToolbarFieldId(i)[1]] = Some(sourceHTML[i])]
    ELSE rawStore

\* the fields applySourceChanges writes itself
RawTargets(i) ==
  IF ToolbarFieldId(i) # None THEN PresentIn(ToolbarFieldId(i), fieldPresent) ELSE << >>

\* hiddenField.value = sourceHTML, before the import
WriteRaw(i) ==
  [f \in Fields |-> IF f \in Range(RawTargets(i)) THEN sourceHTML[i] ELSE fieldVal[f]]

\* applySourceChanges (toggleSource in Source mode, or Ctrl+Enter); ok = FALSE
\* is the import throwing inside editor.update and reaching the catch block
applySourceChanges(i) ==
  /\ mounted[i] /\ NoPending /\ showSource[i]
  /\ rawStore' = StoreRaw(i)
  /\ fieldVal' = WriteRaw(i)
  /\ \E ok \in BOOLEAN :
       /\ lastOp' = Op("apply", i, FieldId(i), "", sourceHTML[i], ok, RawTargets(i))
       /\ IF ok
            THEN /\ pending' = [pending EXCEPT ![i] =
                       PendingOf(ImportSource(sourceHTML[i]), "source-import", "event")]
                 /\ sourceError' = [sourceError EXCEPT ![i] = FALSE]
                 /\ showSource' = [showSource EXCEPT ![i] = FALSE]
            ELSE /\ sourceError' = [sourceError EXCEPT ![i] = TRUE]
                 /\ UNCHANGED <<pending, showSource>>
  /\ UNCHANGED <<mounted, gen, tree, sel, fieldPresent, registry, apiDefined,
                 activeId, sourceHTML, tbDocsPassed, batch, onPage, sourceTool, chrome, bridge>>

WithinBounds(t) == Len(t) <= MaxRoot /\ \A k \in 1..Len(t) : t[k].len <= MaxText

\* ----- paste as plain text (ToolbarPlugin) ---------------------------------
\* bridge.reads: the navigator.clipboard.readText() promises not yet settled,
\* each with the instance and engine whose handler waits for it and, for
\* reference, whether that instance had a range selection at the click
ClipboardRead(i) == [inst |-> i, gen |-> gen[i], sel |-> sel[i]]

RemoveAt(l, k) == [j \in 1..(Len(l) - 1) |-> IF j < k THEN l[j] ELSE l[j + 1]]

\* click on the pasteword button: the read starts, nothing else happens
handlePasteWord(i) ==
  /\ mounted[i] /\ NoPending
  /\ Len(bridge.reads) < MaxReads
  /\ bridge' = [bridge EXCEPT !.reads = Append(@, ClipboardRead(i))]
  /\ lastOp' = Op("pasteClick", i, FieldId(i), "", EmptyHtml, TRUE, << >>)
  /\ UNCHANGED <<mounted, gen, tree, pending, sel, fieldPresent, fieldVal, rawStore,
                 registry, apiDefined, activeId, showSource, sourceHTML, sourceError,
                 onPage, sourceTool, tbDocsPassed, batch, containerStyle, isMaximized,
                 maximizeTool>>

\* the read is rejected; the promise has no rejection handler
ClipboardDenied ==
  /\ NoPending
  /\ \E k \in 1..Len(bridge.reads) :
       /\ bridge' = [bridge EXCEPT !.reads = RemoveAt(@, k)]
       /\ lastOp' = Op("pasteDenied", bridge.reads[k].inst, FieldId(bridge.reads[k].inst),
                       "", EmptyHtml, FALSE, << >>)
  /\ UNCHANGED <<mounted, gen, tree, pending, sel, fieldPresent, fieldVal, rawStore,
                 registry, apiDefined, activeId, showSource, sourceHTML, sourceError,
                 onPage, sourceTool, tbDocsPassed, batch, containerStyle, isMaximized,
                 maximizeTool>>

PasteSelectionAtClick(r) == r.sel

\* $isRangeSelection($getSelection()) inside the update of the then-callback
PasteSelection(r) == sel[r.inst]

\* selection.insertText(text) for a text of one character
PasteResult(t) ==
  IF t = << >> THEN <<Node("paragraph", 1)>> ELSE [t EXCEPT ![Len(t)].len = @ + 1]

\* the engine the handler closed over is still the one on the page
ReadEngineAlive(r) == mounted[r.inst] /\ gen[r.inst] = r.gen

\* the read resolves with a text of one character and the then-callback runs
ClipboardResolved ==
  /\ NoPending
  /\ \E k \in 1..Len(bridge.reads) :
       LET r == bridge.reads[k]
           inserts == ReadEngineAlive(r) /\ PasteSelection(r)
       IN /\ inserts => WithinBounds(PasteResult(tree[r.inst]))
          /\ bridge' = [bridge EXCEPT !.reads = RemoveAt(@, k)]
          /\ pending' = IF inserts
                          THEN [pending EXCEPT ![r.inst] =
                                  PendingOf(PasteResult(tree[r.inst]), "", "event")]
                          ELSE pending
          /\ lastOp' = Op("paste", r.inst, FieldId(r.inst), "", EmptyHtml, inserts, << >>)
  /\ UNCHANGED <<mounted, gen, tree, sel, fieldPresent, fieldVal, rawStore,
                 registry, apiDefined, activeId, showSource, sourceHTML, sourceError,
                 onPage, sourceTool, tbDocsPassed, batch, containerStyle, isMaximized,
                 maximizeTool>>

\* ----- maximize button (ToolbarPlugin) --------------------------------------
\* document.querySelector('.lexical-editor-container'): the first container
\* of the page in document order
FirstContainer == CHOOSE j \in Instances : mounted[j] /\ \A k \in Instances : mounted[k] => j <= k

\* toggleMaximize of the toolbar of instance i
toggleMaximize(i) ==
  /\ mounted[i] /\ NoPending /\ i \in maximizeTool
  /\ containerStyle' = [containerStyle EXCEPT ![FirstContainer] =
                          IF isMaximized[i] THEN "" ELSE "fixed"]
  /\ isMaximized' = [isMaximized EXCEPT ![i] = ~isMaximized[i]]
  /\ lastOp' = Op("maximize", i, FieldId(i), "", EmptyHtml, TRUE, << >>)
  /\ UNCHANGED <<mounted, gen, tree, pending, sel, fieldPresent, fieldVal, rawStore,
                 registry, apiDefined, activeId, showSource, sourceHTML, sourceError,
                 tbDocsPassed, batch, onPage, sourceTool, maximizeTool, bridge>>

\* ----- cross-instance API (ExternalAPIPlugin) -----------------------------
\* window._lexicalEditors[id]
Lookup(id) ==
  IF id \in Fields THEN registry[id]
  ELSE IF id = ProtoKey THEN Some([inst |-> 0, gen |-> 0])
  ELSE None

\* the object found has an update method
IsEngine(e) == e.inst \in Instances

\* history: the id names a registered instance
IsRegistered(id) == id \in Fields /\ registry[id] # None

\* window.setLexicalEditorContent(targetFieldId, htmlContent)
setLexicalEditorContent ==
  /\ apiDefined /\ BatchOpen
  /\ \E id \in Fields \cup {UnknownId, ProtoKey}, h \in HtmlInputs :
       /\ lastOp' = IF ~IsRegistered(id)
                      THEN Op("setContent", 0, "",
                              IF Lookup(id) = None THEN "" ELSE "TypeError",
                              EmptyHtml, FALSE, << >>)
                      ELSE Op("setContent", registry[id][1].inst, id, "", h, TRUE, << >>)
       /\ IF Lookup(id) = None
            THEN UNCHANGED <<pending, batch>>
          ELSE IF ~IsEngine(Lookup(id)[1])
            THEN UNCHANGED <<pending, batch>>   \* targetEditor.update is not a function
            ELSE /\ pending' = [pending EXCEPT ![Lookup(id)[1].inst] =
                      PendingOf(ImportPlain(h), "", "api")]
                 /\ batch' = batch + 1
  /\ UNCHANGED <<mounted, gen, tree, sel, fieldPresent, fieldVal, rawStore, registry,
                 apiDefined, activeId, showSource, sourceHTML, sourceError,
                 tbDocsPassed, onPage, sourceTool, chrome, bridge>>

RECURSIVE SumLen(_)
SumLen(ns) == IF ns = << >> THEN 0 ELSE Head(ns).len + SumLen(Tail(ns))

\* $insertNodes(nodes) at a range selection in the last block of t: inline
\* nodes join the selected block, otherwise the nodes follow it as blocks
insertNodes(t, nodes) ==
  IF nodes = << >> THEN t
  ELSE IF \A k \in 1..Len(nodes) : isInline(nodes[k])
    THEN IF t = << >> THEN <<Node("paragraph", SumLen(nodes))>>
         ELSE [t EXCEPT ![Len(t)].len = t[Len(t)].len + SumLen(nodes)]
    ELSE AppendToRoot(t, nodes)

\* an update that replaces the content instead of inserting into it
InsertResultReplace(i, h) == ImportPlain(h)

\* the tree the update of insertIntoActiveLexicalEditor builds
InsertResult(i, h) ==
  IF sel[i]
    THEN insertNodes(CurTree(i), generateNodesFromDOM(parseFromString(h)))
    ELSE AppendToRoot(CurTree(i), generateNodesFromDOM(parseFromString(h)))

\* window.insertIntoActiveLexicalEditor(htmlContent)
insertIntoActiveLexicalEditor ==
  /\ apiDefined /\ BatchOpen
  /\ \E h \in HtmlInputs :
       LET target == IF activeId = None THEN None ELSE Lookup(activeId[1])
       IN /\ lastOp' = IF activeId = None \/ ~IsRegistered(activeId[1])
                         THEN Op("insertActive", 0, "", "", EmptyHtml, FALSE, << >>)
                         ELSE Op("insertActive", registry[activeId[1]][1].inst, activeId[1],
                                 "", h, TRUE, << >>)
          /\ IF target = None
               THEN UNCHANGED <<pending, batch>>
               ELSE /\ WithinBounds(InsertResult(target[1].inst, h))
                    /\ batch' = batch + 1
                    /\ pending' = [pending EXCEPT ![target[1].inst] =
                         PendingOf(InsertResult(target[1].inst, h), "", "api")]
  /\ UNCHANGED <<mounted, gen, tree, sel, fieldPresent, fieldVal, rawStore, registry,
                 apiDefined, activeId, showSource, sourceHTML, sourceError,
                 tbDocsPassed, onPage, sourceTool, chrome, bridge>>

\* ----- the HTML bridge taken alone ------------------------------------------
BridgeKinds ==
  {"paragraph", "custom-div", "link", "address", "preformatted", "code", "stylesheet"}
BridgeNodes == {Node(k, l) : k \in BridgeKinds, l \in 0..MaxText}
BridgeTrees == {<<n>> : n \in BridgeNodes} \cup {<<n, m>> : n, m \in BridgeNodes}

\* html given to an import
BridgeHtml == { <<STM>>, <<STM, T1>>, <<D1, STM>>, <<Tok("p", 1), ST>> }

\* html given to cleanExportedHtml: a paragraph with any of these classes,
\* directions and spans, alone or behind a <style> block
\* class attributes and spans the normalization may meet
CleanClasses ==
  { << >>, <<{}>>, <<{ThemeClass("paragraph")}>>, <<{PlainClass("note")}>>,
    <<{ThemeClass("paragraph"), PlainClass("note")}>> }
CleanDirs == {"", "ltr", "rtl"}
CleanStyles ==
  { << >>, <<{}>>, <<{Marker}>>, <<{Marker, "color: red"}>>, <<{"color: red"}>> }
CleanSpans ==
  { Span(st, c, d) :
      st \in CleanStyles,
      c \in { << >>, <<{ThemeClass("underline")}>>, <<{PlainClass("note")}>> },
      d \in {"", "rtl"} }
CleanToks ==
  { [Tok("p", 1) EXCEPT !.cls = c, !.dir = d, !.span = sp] :
      c \in CleanClasses, d \in CleanDirs,
      sp \in {<< >>} \cup {<<x>> : x \in CleanSpans} }
CleanInputs == {<<t>> : t \in CleanToks} \cup {<<ST, t>> : t \in CleanToks}

InitBridge ==
  /\ InitCommon /\ onPage = {} /\ sourceTool = {} /\ tbDocsPassed = FALSE
  /\ maximizeTool = {}
  /\ \E tie \in {"first", "last"} :
       \/ \E t \in BridgeTrees :
            bridge = [BridgeIdle EXCEPT !.op = "tree", !.tie = tie, !.tree = t]
       \/ \E h \in BridgeHtml :
            bridge = [BridgeIdle EXCEPT !.op = "html", !.tie = tie, !.html = h]
       \/ \E h \in CleanInputs :
            bridge = [BridgeIdle EXCEPT !.op = "dirty", !.tie = tie, !.html = h]

\* export of the tree in hand
BridgeExport ==
  /\ bridge.op = "tree"
  /\ bridge' = [bridge EXCEPT !.op = "exported", !.html = Export(bridge.tree)]
  /\ UNCHANGED page

\* import of the html in hand by the load/setContent path, then export
BridgeImportPlain ==
  /\ bridge.op \in {"exported", "html"}
  /\ bridge' = [bridge EXCEPT
                  !.op = IF bridge.op = "exported" THEN "roundtrip" ELSE "imported",
                  !.path = "plain",
                  !.back = ImportPlain(bridge.html),
                  !.out = Export(ImportPlain(bridge.html))]
  /\ UNCHANGED page

\* import of the html in hand by the source-apply path, then export
BridgeImportSource ==
  /\ bridge.op \in {"exported", "html"}
  /\ bridge' = [bridge EXCEPT
                  !.op = IF bridge.op = "exported" THEN "roundtrip" ELSE "imported",
                  !.path = "source",
                  !.back = ImportSource(bridge.html),
                  !.out = Export(ImportSource(bridge.html))]
  /\ UNCHANGED page

\* cleanExportedHtml of the html in hand
BridgeClean ==
  /\ bridge.op = "dirty"
  /\ bridge' = [bridge EXCEPT !.op = "cleaned", !.out = cleanExportedHtml(bridge.html)]
  /\ UNCHANGED page

\* ----- the toolbar of an element ------------------------------------------
\* a toollist string, as the pieces split(' ') cuts it into; "" is the piece
\* between two spaces in a row
ToolTokens == {"bold", "undo", "source", "maximize", "quote", "zzz", ""}

RECURSIVE SeqsUpTo(_, _)
SeqsUpTo(S, n) ==
  IF n = 0 THEN {<< >>}
  ELSE LET shorter == SeqsUpTo(S, n - 1)
       IN shorter \cup {Append(l, x) : l \in shorter, x \in S}

ToolLists == SeqsUpTo(ToolTokens, MaxTools)

DefaultToolList ==
  <<"bold", "italic", "underline", "strikethrough", "code", "link", "unlink",
    "ul", "ol", "quote", "undo", "redo">>

\* the tokens the toolbar tests with tools.includes, in the order of its JSX
RenderOrder ==
  <<"formatblock", "spellcheck", "undo", "redo", "bold", "italic", "underline",
    "subscript", "superscript", "removeformatting", "selectall", "alignleft",
    "aligncenter", "alignright", "alignjustify", "bullist", "numlist", "checklist",
    "outdent", "indent", "copy", "cut", "paste", "pasteword", "fontsize",
    "fontfamily", "fontcase", "textcolor", "bgcolor", "table", "footnote",
    "horizontalrule", "maximize", "source">>

\* this.getAttribute('toollist') || '<default list>': null and '' are falsy
ToolListProp(attr) ==
  IF attr = None THEN DefaultToolList
  ELSE IF attr[1] = << >> THEN DefaultToolList
  ELSE attr[1]

\* toolList.split(' ').filter(t => t.trim())
ToolsOf(toolList) == SelectSeq(toolList, LAMBDA t : t # "")

\* the controls of the toolbar, first to last
Rendered(tools) ==
  SelectSeq(RenderOrder, LAMBDA c : \E k \in 1..Len(tools) : tools[k] = c)

InitTools ==
  /\ InitCommon /\ onPage = {} /\ sourceTool = {} /\ tbDocsPassed = FALSE
  /\ maximizeTool = {}
  /\ \E a \in {None} \cup {Some(l) : l \in ToolLists} :
       bridge = [BridgeIdle EXCEPT !.op = "element", !.attr = a]

\* connectedCallback reads the attribute and hands the prop to the editor
ReadToolList ==
  /\ bridge.op = "element"
  /\ bridge' = [bridge EXCEPT !.op = "connected", !.toolList = ToolListProp(bridge.attr)]
  /\ UNCHANGED page

\* the toolbar of instance 1 renders
RenderToolbar ==
  /\ bridge.op = "connected"
  /\ LET controls == Rendered(ToolsOf(bridge.toolList))
         has(c) == \E k \in 1..Len(controls) : controls[k] = c
     IN /\ bridge' = [bridge EXCEPT !.op = "rendered", !.controls = controls]
        /\ sourceTool' = IF has("source") THEN {1} ELSE {}
        /\ maximizeTool' = IF has("maximize") THEN {1} ELSE {}
  /\ UNCHANGED <<mounted, gen, tree, pending, sel, fieldPresent, fieldVal, rawStore,
                 registry, apiDefined, activeId, showSource, sourceHTML, sourceError,
                 onPage, tbDocsPassed, batch, containerStyle, isMaximized, lastOp>>

NextTools == ReadToolList \/ RenderToolbar

\* ----- the JSON attributes of an element ----------------------------------
\* the text of a JSON attribute with one string value: str, the characters
\* between the quotes of that value; ws, the characters between two tokens
\* of the JSON; broken, a syntax error elsewhere (a missing bracket).
\* "LF", "CR", "TAB" are the raw characters, "esc-n", "esc-r", "esc-t" the
\* two-character escapes, "x" any other character.
JsonText(str, ws, broken) == [str |-> str, ws |-> ws, broken |-> broken]

RawControls == {"LF", "CR", "TAB"}

JsonStrings ==
  {l \in SeqsUpTo({"x", "LF", "CR", "TAB"}, MaxStr) : Len(l) = MaxStr => l[1] \in {"CR", "x"}}

JsonTexts ==
  {JsonText(st, ws, FALSE) : st \in JsonStrings, ws \in {<< >>, <<"LF">>}}
    \cup {JsonText(<<"x">>, << >>, TRUE)}

JsonAttrs == {None} \cup {Some(t) : t \in JsonTexts}

\* .replace(/\r\n/g, '\\n').replace(/\r/g, '\\n').replace(/\n/g, '\\n').replace(/\t/g, '\\t')
RECURSIVE SanitizeChars(_)
SanitizeChars(l) ==
  IF l = << >> THEN << >>
  ELSE IF Len(l) >= 2 /\ l[1] = "CR" /\ l[2] = "LF"
    THEN <<"esc-n">> \o SanitizeChars(Tail(Tail(l)))
  ELSE IF l[1] \in {"CR", "LF"} THEN <<"esc-n">> \o SanitizeChars(Tail(l))
  ELSE IF l[1] = "TAB" THEN <<"esc-t">> \o SanitizeChars(Tail(l))
  ELSE <<l[1]>> \o SanitizeChars(Tail(l))

\* the replaces run over the whole attribute, inside and outside its strings
Sanitize(t) == [t EXCEPT !.str = SanitizeChars(t.str), !.ws = SanitizeChars(t.ws)]

\* the character an escape stands for
Unescape(c) ==
  IF c = "esc-n" THEN "LF" ELSE IF c = "esc-r" THEN "CR" ELSE IF c = "esc-t" THEN "TAB" ELSE c

\* JSON.parse: << >> for a SyntaxError, else <<v>> with v the string value.
\* A raw control character inside a string is an error; between tokens only
\* raw whitespace is allowed.
JSONparse(t) ==
  IF \/ t.broken
     \/ \E k \in 1..Len(t.str) : t.str[k] \in RawControls
     \/ \E k \in 1..Len(t.ws) : t.ws[k] \notin RawControls
    THEN None
    ELSE Some([k \in 1..Len(t.str) |-> Unescape(t.str[k])])

DefaultDocuments == << >>
DefaultSizing ==
  [minHeight |-> <<"200px">>, maxHeight |-> <<"350px">>, resize |-> <<"vertical">>]
DefaultSpellCheck == None

\* the values the attributes' JSON stands for, given its string value v
DocumentsValue(v) == <<[name |-> "f1", id |-> "f1", body |-> v]>>
SizingValue(v)    == [DefaultSizing EXCEPT !.maxHeight = v]
SpellCheckValue(v) ==
  Some([fnSpellCheckFunction |-> "launchSpellCheck", arySpellCheckFunctionArgs |-> <<v>>])

\* what JSON.parse is given for each attribute
DocumentsInput(t)  == Sanitize(t)
SizingInput(t)     == t
SpellCheckInput(t) == t

InitAttrs ==
  /\ InitCommon /\ onPage = {} /\ sourceTool = {} /\ tbDocsPassed = FALSE
  /\ maximizeTool = {}
  /\ \E d \in JsonAttrs, z \in JsonAttrs, c \in JsonAttrs :
       bridge = [BridgeIdle EXCEPT !.op = "element", !.docsAttr = d, !.sizingAttr = z,
                                   !.spellAttr = c, !.documents = DefaultDocuments,
                                   !.editorSizing = DefaultSizing,
                                   !.spellCheckCallback = DefaultSpellCheck]

ParsedSizingOneTry(b) ==
  IF b.sizingAttr = None \/ b.log # << >> THEN None
  ELSE JSONparse(SizingInput(b.sizingAttr[1]))

\* the result of the second try block: << >> when the attribute is absent or
\* its parse throws
ParsedSizing(b) ==
  IF b.sizingAttr = None THEN None
  ELSE JSONparse(SizingInput(b.sizingAttr[1]))

\* first try block: aryeditordocuments
ParseDocuments ==
  /\ bridge.op = "element"
  /\ LET r == IF bridge.docsAttr = None THEN None
              ELSE JSONparse(DocumentsInput(bridge.docsAttr[1]))
     IN bridge' =
          IF bridge.docsAttr = None THEN [bridge EXCEPT !.op = "documents"]
          ELSE IF r = None
            THEN [bridge EXCEPT !.op = "documents",
                                !.log = Append(@, "Error parsing aryeditordocuments")]
          ELSE [bridge EXCEPT !.op = "documents", !.documents = DocumentsValue(r[1])]
  /\ UNCHANGED page

\* second try block: editorsizing
ParseSizing ==
  /\ bridge.op = "documents"
  /\ LET r == ParsedSizing(bridge)
     IN bridge' =
          IF bridge.sizingAttr = None THEN [bridge EXCEPT !.op = "sizing"]
          ELSE IF r = None
            THEN [bridge EXCEPT !.op = "sizing",
                                !.log = Append(@, "Error parsing editorsizing")]
          ELSE [bridge EXCEPT !.op = "sizing", !.editorSizing = SizingValue(r[1])]
  /\ UNCHANGED page

\* third try block: objspellcheckcallback
ParseSpellCheck ==
  /\ bridge.op = "sizing"
  /\ LET r == IF bridge.spellAttr = None THEN None
              ELSE JSONparse(SpellCheckInput(bridge.spellAttr[1]))
     IN bridge' =
          IF bridge.spellAttr = None THEN [bridge EXCEPT !.op = "spellcheck"]
          ELSE IF r = None
            THEN [bridge EXCEPT !.op = "spellcheck",
                                !.log = Append(@, "Error parsing objspellcheckcallback")]
          ELSE [bridge EXCEPT !.op = "spellcheck",
                              !.spellCheckCallback = SpellCheckValue(r[1])]
  /\ UNCHANGED page

\* this.root.render(<LexicalEditor .../>)
RenderEditor ==
  /\ bridge.op = "spellcheck"
  /\ bridge' = [bridge EXCEPT !.op = "mounted"]
  /\ UNCHANGED page

NextAttrs == ParseDocuments \/ ParseSizing \/ ParseSpellCheck \/ RenderEditor

\* ----- the spellcheck control ---------------------------------------------
\* functions a host page may define on window
HostFunctions == {"launchSpellCheck", "mySpell"}

SpellArgs == { << >>, <<"false">>, <<"a">>, <<"a", "b">> }

\* the objects objspellcheckcallback may parse to
SpellDescriptors ==
  {None} \cup
  { Some([fnSpellCheckFunction |-> f, arySpellCheckFunctionArgs |-> a]) :
      f \in HostFunctions, a \in SpellArgs }

\* ToolbarPlugin's default for the prop LexicalEditor does not pass
buildLetterOnComplete == "false"

\* variant: which of the two ToolbarPlugin components of the file renders;
\* controls: whether the tool list names spellcheck
InitSpell ==
  /\ InitCommon /\ onPage = {} /\ sourceTool = {} /\ tbDocsPassed = FALSE
  /\ maximizeTool = {}
  /\ \E v \in {"current", "earlier"}, d \in SpellDescriptors,
        h \in SUBSET HostFunctions, c \in {<< >>, <<"spellcheck">>} :
       bridge = [BridgeIdle EXCEPT !.op = "toolbar", !.variant = v, !.controls = c,
                                   !.spellCheckCallback = d, !.hostFns = h]

Invoke(fn, args) == [fn |-> fn, args |-> args]

\* click on the spellcheck button of the current ToolbarPlugin
handleSpellCheck ==
  /\ bridge.op = "toolbar" /\ bridge.variant = "current"
  /\ bridge.controls = <<"spellcheck">>
  /\ bridge.clicks < MaxClicks
  /\ bridge' =
       IF "launchSpellCheck" \in bridge.hostFns
         THEN [bridge EXCEPT !.clicks = @ + 1,
                 !.calls = Append(@, Invoke("launchSpellCheck", <<buildLetterOnComplete>>))]
         ELSE [bridge EXCEPT !.clicks = @ + 1,
                 !.log = Append(@, "launchSpellCheck() is not defined")]
  /\ UNCHANGED page

\* click on the spellcheck button of the earlier ToolbarPlugin, which shows
\* the button only when it has a descriptor
handleSpellCheckEarlier ==
  /\ bridge.op = "toolbar" /\ bridge.variant = "earlier"
  /\ bridge.controls = <<"spellcheck">> /\ bridge.spellCheckCallback # None
  /\ bridge.clicks < MaxClicks
  /\ LET d == bridge.spellCheckCallback[1]
     IN bridge' =
          IF d.fnSpellCheckFunction \in bridge.hostFns
            THEN [bridge EXCEPT !.clicks = @ + 1,
                    !.calls = Append(@, Invoke(d.fnSpellCheckFunction,
                                               d.arySpellCheckFunctionArgs))]
            ELSE [bridge EXCEPT !.clicks = @ + 1]
  /\ UNCHANGED page

NextSpell == handleSpellCheck \/ handleSpellCheckEarlier

\* ----- the table-size picker (TableCreatorPlugin) -------------------------
gridSize == 8

Cells == 0..(gridSize * gridSize - 1)

Min(a, b) == IF a < b THEN a ELSE b
Max(a, b) == IF a > b THEN a ELSE b

InitTable ==
  /\ InitCommon /\ onPage = {} /\ sourceTool = {} /\ tbDocsPassed = FALSE
  /\ maximizeTool = {}
  /\ bridge = [BridgeIdle EXCEPT !.op = "picker"]

\* setSelectedRows(row + 1); setSelectedCols(col + 1)
selectGridCells(pk, index) ==
  [pk EXCEPT !.rows = (index \div gridSize) + 1, !.cols = (index % gridSize) + 1]

\* selectGridCells(idx), then the cell idx takes the focus
moveCellsByArrowKeys(pk, idx) == [selectGridCells(pk, idx) EXCEPT !.focus = idx]

\* editor.dispatchCommand(INSERT_TABLE_COMMAND, {columns, rows}); handleClose()
createTable(pk, rows, cols) ==
  [pk EXCEPT !.cmd = <<[rows |-> rows, columns |-> cols]>>, !.open = FALSE,
             !.focus = -1, !.hover = FALSE]

\* the table button is clicked; the effect focuses the first cell
OpenPicker ==
  /\ bridge.op = "picker" /\ ~bridge.picker.open
  /\ bridge' = [bridge EXCEPT !.picker = [@ EXCEPT !.open = TRUE, !.focus = 0,
                                                     !.cmd = << >>]]
  /\ UNCHANGED page

\* Escape or a click outside: handleClose
ClosePicker ==
  /\ bridge.op = "picker" /\ bridge.picker.open
  /\ bridge' = [bridge EXCEPT !.picker = [@ EXCEPT !.open = FALSE, !.focus = -1,
                                                     !.hover = FALSE]]
  /\ UNCHANGED page

handleMouseOver ==
  /\ bridge.op = "picker" /\ bridge.picker.open
  /\ \E index \in Cells :
       bridge' = [bridge EXCEPT !.picker = [selectGridCells(@, index) EXCEPT !.hover = TRUE]]
  /\ UNCHANGED page

\* click on the cell under the pointer
handleCellClick ==
  /\ bridge.op = "picker" /\ bridge.picker.open /\ bridge.picker.hover
  /\ bridge' = [bridge EXCEPT !.picker = createTable(@, @.rows, @.cols)]
  /\ UNCHANGED page

\* a key goes down on the focused cell
handleKeyDown ==
  /\ bridge.op = "picker" /\ bridge.picker.open /\ bridge.picker.focus \in Cells
  /\ \E key \in {"Enter", "ArrowUp", "ArrowDown", "ArrowLeft", "ArrowRight", "Tab"} :
       LET pk == bridge.picker
           index == pk.focus
       IN bridge' = [bridge EXCEPT !.picker =
            IF key = "Enter" THEN createTable(pk, pk.rows, pk.cols)
            ELSE IF key = "ArrowUp" THEN moveCellsByArrowKeys(pk, Max(0, index - gridSize))
            ELSE IF key = "ArrowDown"
              THEN moveCellsByArrowKeys(pk, Min(gridSize * gridSize - 1, index + gridSize))
            ELSE IF key = "ArrowLeft" THEN moveCellsByArrowKeys(pk, Max(0, index - 1))
            ELSE IF key = "ArrowRight"
              THEN moveCellsByArrowKeys(pk, Min(gridSize * gridSize - 1, index + 1))
            ELSE pk]
  /\ UNCHANGED page

NextTable == OpenPicker \/ ClosePicker \/ handleMouseOver \/ handleCellClick \/ handleKeyDown

NextBridge == BridgeExport \/ BridgeImportPlain \/ BridgeImportSource \/ BridgeClean

\* ----- specifications -----------------------------------------------------
\* what can happen on a page without the source view
Next ==
  \/ \E i \in Instances : Mount(i)
  \/ \E i \in Instances : Unmount(i)
  \/ \E i \in Instances : Focus(i)
  \/ \E i \in Instances : VisualEdit(i)
  \/ \E i \in Instances : Commit(i)
  \/ setLexicalEditorContent
  \/ insertIntoActiveLexicalEditor

\* ... and on a page with it
NextSource ==
  \/ Next
  \/ \E i \in Instances : EnterSourceView(i)
  \/ \E i \in Instances : handleSourceChange(i)
  \/ \E i \in Instances : applySourceChanges(i)

\* what the user can do on a page whose tool lists have pasteword
NextPaste ==
  \/ \E i \in Instances : Mount(i)
  \/ \E i \in Instances : Unmount(i)
  \/ \E i \in Instances : Focus(i)
  \/ \E i \in Instances : VisualEdit(i)
  \/ \E i \in Instances : Commit(i)
  \/ \E i \in Instances : handlePasteWord(i)
  \/ ClipboardDenied
  \/ ClipboardResolved

\* what the user can do on a page with the maximize button (no host script
\* calls the API there)
NextMaximize ==
  \/ \E i \in Instances : Mount(i)
  \/ \E i \in Instances : Unmount(i)
  \/ \E i \in Instances : Focus(i)
  \/ \E i \in Instances : VisualEdit(i)
  \/ \E i \in Instances : Commit(i)
  \/ \E i \in Instances : toggleMaximize(i)

Spec == Init /\ [][Next]_vars

SpecMaximize == InitMaximize /\ [][NextMaximize]_vars

SpecBridge == InitBridge /\ [][NextBridge]_vars
\* the toolbar an element makes of its toollist attribute
SpecTools == InitTools /\ [][NextTools]_vars
\* the props an element makes of its JSON attributes
SpecAttrs == InitAttrs /\ [][NextAttrs]_vars
\* clicks on the spellcheck control of a rendered toolbar
SpecSpell == InitSpell /\ [][NextSpell]_vars
\* events on the table-size picker
SpecTable == InitTable /\ [][NextTable]_vars
\* user events and clipboard reads
SpecPaste == Init /\ [][NextPaste]_vars

SpecSource == InitSource /\ [][NextSource]_vars

SpecToolbar == InitToolbar /\ [][NextSource]_vars

\* ----- properties ---------------------------------------------------------
\* the last step committed the transaction that handler `what` of i started
Committed(i, what) == lastOp.op = "commit" /\ lastOp.inst = i /\ lastOp.what = what

\* C1: once the user applies source text R and the import succeeds, the hidden
\* field of the instance holds exactly R, also after the listener has run for
\* the transaction of the apply itself.
C1_FieldHoldsRawAfterApply ==
  \A i \in Instances :
    (Committed(i, "apply") /\ FieldId(i) \in fieldPresent)
      => fieldVal[FieldId(i)] = lastOp.html

C3_OverrideIffApplied ==
  [][ IF lastOp'.op = "apply" /\ lastOp'.ok
        THEN rawStore' = [rawStore EXCEPT ![lastOp'.id] = Some(lastOp'.html)]
        ELSE rawStore' = rawStore ]_vars

C6_OnlyOwnFieldWritten ==
  [][ lastOp'.op = "commit"
        => /\ lastOp'.writes = PresentIn(<<lastOp'.id>>, fieldPresent)
           /\ \A f \in Fields :
                fieldVal'[f] = IF f = lastOp'.id /\ f \in fieldPresent
                                 THEN Export(tree'[lastOp'.inst])
                                 ELSE fieldVal[f] ]_vars

\* C6 (amended): a commit writes the normalized export of the committed tree,
\* once each and in list order, to the existing hidden fields of all document
\* descriptors of the instance and to no other field; no other step of the
\* visual editor or of the API writes a hidden field.
C6_SyncOnCommit ==
  [][ /\ lastOp'.op = "commit"
        => /\ lastOp'.writes = PresentIn(Documents(lastOp'.inst), fieldPresent)
           /\ \A f \in Fields :
                fieldVal'[f] = IF f \in Range(Documents(lastOp'.inst)) \cap fieldPresent
                                 THEN Export(tree'[lastOp'.inst])
                                 ELSE fieldVal[f]
      /\ lastOp'.op # "commit" => fieldVal' = fieldVal ]_vars

C6_Witness ==
  /\ Committed(1, "edit")
  /\ lastOp.writes = <<"f1", "f3">>
  /\ tree[1] = <<Node("custom-div", 1), Node("paragraph", 1)>>
  /\ fieldVal["f1"] = <<Tok("div", 1), Tok("p", 1)>>
  /\ fieldVal["f3"] = fieldVal["f1"]

\* C7: setContent with an id that is not registered, and insertAtActive with
\* no active id or an active id that is not registered, change no tree, no
\* pending transaction, no hidden field, no override and no registry entry,
\* and return to the caller without an error.
C7_UnregisteredIsNoOp ==
  [][ (lastOp'.op \in {"setContent", "insertActive"} /\ ~lastOp'.ok)
        => /\ lastOp'.what # "TypeError"
           /\ tree' = tree /\ pending' = pending
           /\ fieldVal' = fieldVal
           /\ rawStore' = rawStore /\ registry' = registry
           /\ activeId' = activeId ]_vars

C9_RootChildrenAreBlocks ==
  \A i \in Instances : \A k \in 1..Len(tree[i]) :
    /\ isElementNode(tree[i][k]) \/ isDecoratorNode(tree[i][k])
    /\ ~isInline(tree[i][k])

\* C10: the registry has an entry for an id exactly while the instance with
\* that id is mounted, and the entry is the engine that mount created.
C10_RegistryIsMounted ==
  \A f \in Fields :
    /\ registry[f] # None <=> \E i \in Instances : mounted[i] /\ FieldId(i) = f
    /\ registry[f] # None
         => /\ mounted[registry[f][1].inst]
            /\ FieldId(registry[f][1].inst) = f
            /\ registry[f][1].gen = gen[registry[f][1].inst]

C10_Witness ==
  /\ registry["f1"] = Some([inst |-> 1, gen |-> 2])
  /\ registry["f2"] = None /\ gen[2] = 1

\* C11: one id at most is marked last-focused; the mark changes only when an
\* instance receives focus and is then the id of that instance; an
\* insertAtActive call starts a transaction on the marked instance only.
C11_ActiveIsLastFocused ==
  [][ /\ Len(activeId') <= 1
      /\ IF lastOp'.op = "focus"
           THEN activeId' = Some(FieldId(lastOp'.inst))
           ELSE activeId' = activeId
      /\ lastOp'.op = "insertActive"
           => /\ tree' = tree
              /\ \A j \in Instances :
                   pending'[j] # pending[j]
                     => activeId # None /\ FieldId(j) = activeId[1] ]_vars

C11_Witness ==
  /\ lastOp.op = "insertActive" /\ lastOp.ok /\ lastOp.inst = 2
  /\ activeId = Some("f2")
  /\ mounted[1] /\ sel[1]
  /\ pending[2] # None /\ pending[1] = None

\* C12: insertAtActive on a registered last-focused instance inserts the
\* imported nodes at the selection when the instance has a range selection;
\* otherwise the root keeps its children, in order, and the imported nodes
\* (inline ones wrapped in a paragraph) follow them in import order.
C12_InsertAtSelectionOrAppend ==
  [][ (lastOp'.op = "insertActive" /\ lastOp'.ok)
        => LET i     == lastOp'.inst
               old   == CurTree(i)
               new   == pending'[i][1].tree
               nodes == generateNodesFromDOM(parseFromString(lastOp'.html))
           IN IF sel[i]
                THEN new = insertNodes(old, nodes)
                ELSE /\ Len(new) = Len(old) + Len(nodes)
                     /\ SubSeq(new, 1, Len(old)) = old
                     /\ \A k \in 1..Len(nodes) :
                          new[Len(old) + k] =
                            IF isElementNode(nodes[k]) \/ isDecoratorNode(nodes[k])
                              THEN nodes[k]
                              ELSE Node("paragraph", nodes[k].len) ]_vars

C12_Witness ==
  /\ lastOp.op = "insertActive" /\ lastOp.ok /\ lastOp.inst = 1
  /\ lastOp.html = <<ST, T1>>
  /\ ~sel[1]
  /\ tree[1] = <<Node("custom-div", 1)>>
  /\ pending[1] # None
  /\ pending[1][1].tree = <<Node("custom-div", 1), Node("paragraph", 1)>>

\* C13: a visual edit, setContent, source apply, insertAtActive, maximize
\* toggle or sync write of one instance leaves the tree, the hidden fields,
\* the stored override and the container presentation of every other mounted
\* instance unchanged.
C13_InstancesIndependent ==
  [][ lastOp'.op \in {"edit", "setContent", "insertActive", "apply", "maximize", "commit"}
        => \A j \in Instances \ {lastOp'.inst} :
             mounted[j]
               => /\ tree'[j] = tree[j]
                  /\ \A f \in Range(Documents(j)) : fieldVal'[f] = fieldVal[f]
                  /\ rawStore'[FieldId(j)] = rawStore[FieldId(j)]
                  /\ containerStyle'[j] = containerStyle[j] ]_vars

\* C14: exporting one node of a custom kind (Address, Preformatted, Div,
\* StyleSheet) and importing the html yields one node of the same kind.
C14_CustomKindsRoundTrip ==
  (/\ bridge.op = "roundtrip"
   /\ Len(bridge.tree) = 1
   /\ bridge.tree[1].type \in {"address", "preformatted", "custom-div", "stylesheet"})
    => /\ Len(bridge.back) = 1
       /\ bridge.back[1].type = bridge.tree[1].type

\* C15: a <style> block with attributes in imported html is present, with the
\* same attributes and content, in the export of the imported tree, on every
\* import path.
C15_StyleSurvivesImport ==
  (bridge.op = "imported" /\ \E k \in 1..Len(bridge.html) : bridge.html[k] = STM)
    => \E k \in 1..Len(bridge.out) : bridge.out[k] = STM

\* C16: for every tree of registered node kinds, exporting, importing the
\* html and exporting again yields the html of the first export.
C16_ExportIdempotent ==
  (/\ bridge.op = "roundtrip"
   /\ \A k \in 1..Len(bridge.tree) : bridge.tree[k].type # "stylesheet")
    => bridge.out = bridge.html

\* C17: normalized html has no class token starting with lexical- and no
\* dir="ltr" on any element; a class attribute left without tokens is removed;
\* on every element that stays, the other class tokens and a dir other than
\* ltr are those of the input.
C17_PlainTokens(cls) == IF cls = << >> THEN {} ELSE {c \in cls[1] : c[1] # "lexical-"}
C17_Normal(cls, dir) ==
  /\ cls # << >> => (cls[1] # {} /\ \A c \in cls[1] : c[1] # "lexical-")
  /\ dir # "ltr"
C17_Kept(icls, idir, ocls, odir) ==
  /\ C17_PlainTokens(ocls) = C17_PlainTokens(icls)
  /\ odir = (IF idir = "ltr" THEN "" ELSE idir)
C17_NoThemeClassNoLtr ==
  /\ bridge.op \in {"exported", "roundtrip"} =>
        \A k \in 1..Len(bridge.html) :
          /\ C17_Normal(bridge.html[k].cls, bridge.html[k].dir)
          /\ bridge.html[k].span # << >> =>
                C17_Normal(bridge.html[k].span[1].cls, bridge.html[k].span[1].dir)
  /\ bridge.op = "cleaned" =>
        LET off == Len(bridge.html) - Len(bridge.out)
        IN \A k \in 1..Len(bridge.out) :
             LET o == bridge.out[k]
                 i == bridge.html[k + off]
             IN /\ C17_Normal(o.cls, o.dir)
                /\ C17_Kept(i.cls, i.dir, o.cls, o.dir)
                /\ o.span # << >> =>
                      /\ i.span # << >>
                      /\ C17_Normal(o.span[1].cls, o.span[1].dir)
                      /\ C17_Kept(i.span[1].cls, i.span[1].dir, o.span[1].cls, o.span[1].dir)

C17_Witness ==
  /\ bridge.op = "cleaned"
  /\ bridge.html = <<[Tok("p", 1) EXCEPT
                        !.cls = <<{ThemeClass("paragraph"), PlainClass("note")}>>,
                        !.dir = "ltr",
                        !.span = <<Span(<<{Marker, "color: red"}>>,
                                        <<{ThemeClass("underline")}>>, "rtl")>>]>>
  /\ bridge.out = <<[Tok("p", 1) EXCEPT
                       !.cls = <<{PlainClass("note")}>>,
                       !.span = <<Span(<<{"color: red"}>>, << >>, "rtl")>>]>>

\* C18 helpers: the span of the normalized element, its input span, and what
\* a kept span must look like
C18_Decls(style) == IF style = << >> THEN {} ELSE style[1]
C18_KeptIntact(i, o) ==
  /\ o.span # << >>
  /\ o.span[1].style = <<C18_Decls(i.span[1].style) \ {Marker}>>
  /\ C17_Kept(i.span[1].cls, i.span[1].dir, o.span[1].cls, o.span[1].dir)
C18_Pairs ==
  LET off == Len(bridge.html) - Len(bridge.out)
  IN { <<bridge.html[k + off], bridge.out[k]>> : k \in 1..Len(bridge.out) }

\* C18 as stated: a span is unwrapped, its text staying in place, exactly when
\* its only style is the whitespace marker; every other span is kept with its
\* other styles and attributes and without the marker.
C18_UnwrapIffMarkerOnly ==
  bridge.op = "cleaned" =>
    \A p \in C18_Pairs :
      (p[1].span # << >>) =>
        /\ p[2].tag = p[1].tag /\ p[2].len = p[1].len
        /\ IF p[1].span[1].style = <<{Marker}>>
             THEN p[2].span = << >>
             ELSE C18_KeptIntact(p[1], p[2])

\* C18 amended: a span is unwrapped, its text staying in place, exactly when
\* its style attribute holds no declaration other than the whitespace marker,
\* which includes a span with an empty or no style attribute; every other
\* span is kept with its other styles, and its attributes as steps 1 and 2
\* leave them, and without the marker.
C18_UnwrapIffNoOtherStyle ==
  bridge.op = "cleaned" =>
    \A p \in C18_Pairs :
      (p[1].span # << >>) =>
        /\ p[2].tag = p[1].tag /\ p[2].len = p[1].len
        /\ IF C18_Decls(p[1].span[1].style) \subseteq {Marker}
             THEN p[2].span = << >>
             ELSE C18_KeptIntact(p[1], p[2])

C18_Witness ==
  /\ bridge.op = "cleaned"
  /\ \E p \in C18_Pairs :
       /\ p[1].span = <<Span(<< >>, <<{PlainClass("note")}>>, "")>>
       /\ p[2].span = << >>
       /\ p[2].len = 1

\* C19: for every toollist string, the empty one included, the controls of
\* the toolbar are exactly the recognized tokens that occur in the string.
C19_ControlsAreListedTokens ==
  (bridge.op = "rendered" /\ bridge.attr # None) =>
    {bridge.controls[k] : k \in 1..Len(bridge.controls)}
      = {bridge.attr[1][k] : k \in 1..Len(bridge.attr[1])}
          \cap {RenderOrder[k] : k \in 1..Len(RenderOrder)}

\* C20: the controls of the toolbar are in the order in which their tokens
\* first occur in the toollist string.
C20_ControlsInListOrder ==
  (bridge.op = "rendered" /\ bridge.attr # None /\ bridge.attr[1] # << >>) =>
    LET l == bridge.attr[1]
        first(c) == CHOOSE k \in 1..Len(l) : l[k] = c /\ \A j \in 1..(k - 1) : l[j] # c
    IN \A a, b \in 1..Len(bridge.controls) :
         a < b => first(bridge.controls[a]) < first(bridge.controls[b])

\* C21 helpers: the JSON text with its raw control characters properly escaped
C21_Escape(c) ==
  IF c = "LF" THEN "esc-n" ELSE IF c = "CR" THEN "esc-r" ELSE IF c = "TAB" THEN "esc-t" ELSE c
C21_Escaped(t) == [t EXCEPT !.str = [k \in 1..Len(t.str) |-> C21_Escape(t.str[k])]]
C21_Applies(a) ==
  /\ a # None
  /\ \E k \in 1..Len(a[1].str) : a[1].str[k] \in RawControls
  /\ JSONparse(C21_Escaped(a[1])) # None

\* C21: an element whose JSON attribute has raw newline, carriage-return or
\* tab characters in a string value mounts with the value that the properly
\* escaped attribute stands for, for each of the three JSON attributes.
C21_RawControlsAsEscaped ==
  bridge.op = "mounted" =>
    /\ C21_Applies(bridge.docsAttr) =>
         bridge.documents = DocumentsValue(JSONparse(C21_Escaped(bridge.docsAttr[1]))[1])
    /\ C21_Applies(bridge.sizingAttr) =>
         bridge.editorSizing = SizingValue(JSONparse(C21_Escaped(bridge.sizingAttr[1]))[1])
    /\ C21_Applies(bridge.spellAttr) =>
         bridge.spellCheckCallback
           = SpellCheckValue(JSONparse(C21_Escaped(bridge.spellAttr[1]))[1])

\* C22 helpers: an attribute whose JSON has a syntax error, and one whose
\* JSON is well formed on one line without control characters
C22_Malformed(a) == a # None /\ a[1].broken
C22_Clean(a) ==
  /\ a # None /\ ~a[1].broken /\ a[1].ws = << >>
  /\ \A k \in 1..Len(a[1].str) : a[1].str[k] = "x"

\* C22: in the mounted element, an attribute with malformed JSON has its
\* default value, every well-formed attribute has its parsed value whatever
\* the other attributes hold, and no exception has left connectedCallback.
C22_MalformedFallsBackAlone ==
  bridge.op = "mounted" =>
    /\ ~bridge.thrown
    /\ C22_Malformed(bridge.docsAttr) => bridge.documents = DefaultDocuments
    /\ C22_Malformed(bridge.sizingAttr) => bridge.editorSizing = DefaultSizing
    /\ C22_Malformed(bridge.spellAttr) => bridge.spellCheckCallback = DefaultSpellCheck
    /\ C22_Clean(bridge.docsAttr) => bridge.documents = DocumentsValue(bridge.docsAttr[1].str)
    /\ C22_Clean(bridge.sizingAttr) => bridge.editorSizing = SizingValue(bridge.sizingAttr[1].str)
    /\ C22_Clean(bridge.spellAttr) =>
         bridge.spellCheckCallback = SpellCheckValue(bridge.spellAttr[1].str)

C22_Witness ==
  /\ bridge.op = "mounted"
  /\ C22_Malformed(bridge.docsAttr) /\ bridge.documents = DefaultDocuments
  /\ bridge.log = <<"Error parsing aryeditordocuments">>
  /\ bridge.editorSizing = SizingValue(<<"x">>)
  /\ bridge.spellCheckCallback = SpellCheckValue(<<"x", "x">>)

\* C23: each activation of the spellcheck control of an instance with a
\* descriptor calls the host function the descriptor names once, with the
\* descriptor's arguments in order; when the page has no function of that
\* name, nothing is called.
C23_CallsNamedFunction ==
  [][(bridge'.clicks = bridge.clicks + 1 /\ bridge.spellCheckCallback # None) =>
       LET d == bridge.spellCheckCallback[1]
       IN bridge'.calls =
            IF d.fnSpellCheckFunction \in bridge.hostFns
              THEN Append(bridge.calls,
                          Invoke(d.fnSpellCheckFunction, d.arySpellCheckFunctionArgs))
              ELSE bridge.calls]_vars

\* C24: when the hidden field of an instance's id is not on the page, each
\* run of its update listener writes nothing, and the transaction that
\* triggered it is committed to the instance's tree all the same.
C24_AbsentFieldIsNoOp ==
  [][\A i \in Instances :
       (lastOp'.op = "commit" /\ lastOp'.inst = i /\ pending[i] # None
          /\ FieldId(i) \notin fieldPresent)
         => /\ fieldVal' = fieldVal
            /\ lastOp'.writes = << >>
            /\ tree'[i] = pending[i][1].tree
            /\ mounted'[i]]_vars

\* an edit of the instance without hidden field has been committed, and the
\* instance takes the next edit
C24_Witness ==
  /\ Committed(2, "edit") /\ FieldId(2) \notin fieldPresent
  /\ tree[2] # ImportPlain(DocBody(2))
  /\ ENABLED VisualEdit(2)

C26_PasteFireAndForget ==
  [][/\ lastOp'.op = "pasteDenied" =>
          /\ tree' = tree /\ pending' = pending /\ fieldVal' = fieldVal
          /\ Len(bridge'.reads) = Len(bridge.reads) - 1
     /\ lastOp'.op = "paste" =>
          LET i == lastOp'.inst
          IN /\ Len(bridge'.reads) = Len(bridge.reads) - 1
             /\ tree' = tree /\ fieldVal' = fieldVal
             /\ \A j \in Instances \ {i} : pending'[j] = pending[j]
             /\ IF mounted[i] /\ sel[i] /\ lastOp'.ok
                  THEN /\ pending[i] = None /\ pending'[i] # None
                       /\ SumLen(pending'[i][1].tree) = SumLen(tree[i]) + 1
                  ELSE pending'[i] = pending[i]
     /\ (lastOp'.op = "paste" /\ mounted[lastOp'.inst] /\ sel[lastOp'.inst]
           /\ \A k \in 1..Len(bridge.reads) :
                 bridge.reads[k].inst = lastOp'.inst => bridge.reads[k].gen = gen[lastOp'.inst])
          => lastOp'.ok]_vars

\* a read has resolved on an instance with a range selection and its text
\* is in the transaction waiting for its commit
C26_Witness ==
  /\ lastOp.op = "paste" /\ lastOp.ok
  /\ pending[lastOp.inst] # None
  /\ pending[lastOp.inst][1].tree = PasteResult(tree[lastOp.inst])

\* C27: a mount imports the hidden field's value when the field is on the
\* page and not empty, else the body of the first document descriptor; when
\* both are empty no import is started and the tree is the engine's initial one.
C27_InitialContentSource ==
  [][\A i \in Instances :
       (lastOp'.op = "mount" /\ lastOp'.inst = i) =>
         LET f == Documents(i)[1]
             fromField == f \in fieldPresent /\ fieldVal[f] # EmptyHtml
         IN /\ tree'[i] = InitialTree
            /\ pending'[i] =
                 IF fromField
                   THEN PendingOf(ImportPlain(fieldVal[f]), "", "event")
                 ELSE IF DocBody(i) # EmptyHtml
                   THEN PendingOf(ImportPlain(DocBody(i)), "", "event")
                 ELSE None]_vars

\* the first editor has been mounted over a field that holds saved html
\* while its descriptor has a body of its own
C27_Witness ==
  /\ lastOp.op = "mount" /\ lastOp.inst = 1
  /\ fieldVal["f1"] # EmptyHtml /\ DocBody(1) # EmptyHtml /\ fieldVal["f1"] # DocBody(1)
  /\ pending[1] = PendingOf(ImportPlain(fieldVal["f1"]), "", "event")

\* C28: when an instance is mounted over a hidden field that holds saved
\* html and the transaction of the initial load is committed, no edit having
\* been made, the field's value is still the saved html.
C28_LoadKeepsSavedHtml ==
  [][\A i \in Instances :
       (/\ lastOp.op = "mount" /\ lastOp.inst = i
        /\ lastOp'.op = "commit" /\ lastOp'.inst = i
        /\ FieldId(i) \in fieldPresent /\ fieldVal[FieldId(i)] # EmptyHtml)
         => fieldVal'[FieldId(i)] = fieldVal[FieldId(i)]]_vars

\* C29: whenever an id is marked last-focused, the registry has an editor
\* under that id.
C29_ActiveIsRegistered ==
  activeId # None => registry[activeId[1]] # None

\* C30: every INSERT_TABLE_COMMAND the picker dispatches has between 1 and
\* gridSize rows and between 1 and gridSize columns, and the focused cell
\* index stays within 0..63.
C30_TableSizeInRange ==
  /\ bridge.picker.cmd # << >> =>
       /\ bridge.picker.cmd[1].rows \in 1..gridSize
       /\ bridge.picker.cmd[1].columns \in 1..gridSize
  /\ bridge.picker.open => bridge.picker.focus \in 0..63


====
